---- MODULE Spec2Model ----
(***************************************************************************)
(* Real-time presence, messaging and conversation core of the farm         *)
(* management application.  Several code bases share the repository:       *)
(*   - digifarm/backend  (routes/chat.js over the Chat model of farmer /   *)
(*     expert / status / rating),                    specification Spec    *)
(*   - server/routes chat (consultations with participants and readBy),    *)
(*                                                   specification SpecC   *)
(*   - the socket.io handler over models/Chat.js,    specification SpecS   *)
(*     (SpecM: messages and read receipts, SpecA: admin broadcast),        *)
(*   - the sensor routes over the Sensor model,      specification SpecN   *)
(*     (SpecW: the retention window of the stored readings, SpecL: the     *)
(*     alert log, SpecD: delivery of sensor-data by the server app).       *)
(* SpecG covers reading and posting in consultations, SpecP the socket     *)
(* handler with every user connecting, SpecF findOrCreateChat.             *)
(* Every handler is split at its persistence suspension points: the step   *)
(* that receives the findOne result (and runs synchronously up to the      *)
(* call of save) and the step in which the store applies the save.         *)
(***************************************************************************)
EXTENDS Integers, Sequences, FiniteSets, TLC

(* ---------------------------- bounds ----------------------------------- *)
NumExperts == 2
MaxMsgs == 2
MaxClock == 2
MaxInFlight == 2
MaxSockets == 2

(* ------------------------- digifarm users ------------------------------ *)
Farmers == {1}
Experts == {10 + i : i \in 1..NumExperts}
DUsers == Farmers \cup Experts
\* conversations are independent documents: one is followed
ChatIds == {1}

userType(u) == IF u \in Farmers THEN "farmer" ELSE "expert"

NoExpert == 0
NoScore == 0
NoChat == [status |-> "none"]
Idle == [op |-> "idle"]

\* enum of chatSchema.status
StatusEnum == {"open", "in_progress", "resolved", "closed"}
\* a value outside the enum stands for every string the schema rejects
StatusInputs == StatusEnum \cup {"archived"}
\* rating.score has min 1, max 5; 6 stands for the values validation rejects
ScoreInputs == {1, 5, 6}

VARIABLES
  calls,          \* findOrCreateChat: per caller, the call in progress or its outcome
  chats,      \* digifarm Chat collection: id -> document or NoChat
  reqs,       \* digifarm: per user, the request in flight (position + locals)
  assignOk,   \* digifarm history: experts that got 200 from POST /:id/assign
  now,        \* wall clock read by new Date()
  sockets,        \* socket.io: socket id -> [user, state]
  connectedUsers, \* the Map of the socket handler: user id -> socket id
  rooms,          \* socket.io adapter: socket id -> rooms joined
  availability,   \* User collection: expert.availability per user
  pending,        \* User.findByIdAndUpdate calls issued and not yet applied
  handshake,      \* the last connection attempt and what io.use answered
  schats,         \* Chat collection of models/Chat.js: chatId -> document
  sreqs,          \* per socket, the event handler in flight
  outbox,         \* events emitted by the step just taken
  consults,       \* Chat collection of the consultation routes: id -> document
  creqs,          \* consultation routes: per user, the request in flight
  cres,           \* consultation routes: HTTP status answered by the step just taken
  greqs,          \* GET /:id and POST /:id/messages: per slot, the request in flight
  sensor,         \* the Sensor document of the device
  nreqs,          \* POST /:deviceId/reading: per client, the request in flight
  ingested,       \* history: readings accepted so far by POST /:deviceId/reading
  overlapped,     \* history: some reading was accepted while another was in flight
  nres,           \* sensor routes: what the step just taken computed and answered
  joined,         \* server app sockets: connected flag and rooms joined
  sensorOut       \* server app: events emitted by the step just taken

chatVars == <<chats, reqs, assignOk, calls>>
socketVars == <<sockets, connectedUsers, rooms, availability, pending,
                handshake, schats, sreqs, outbox>>
consultVars == <<consults, creqs, cres, greqs>>
sensorVars == <<sensor, nreqs, ingested, overlapped, nres, joined, sensorOut>>
vars == <<chats, reqs, assignOk, calls, now, sockets, connectedUsers, rooms,
          availability, pending, handshake, schats, sreqs, outbox,
          consults, creqs, cres, greqs, sensor, nreqs, ingested, overlapped, nres,
          joined, sensorOut>>

\* new Chat({farmer, subject, category, priority, messages: []}) with schema defaults
chatSchema(f) ==
  [farmer |-> f, expert |-> NoExpert, status |-> "open",
   messages |-> <<>>, score |-> NoScore]

\* the query built by the routes guarded by `auth`: {_id, farmer} or {_id, expert}
MatchesOwn(u, id) ==
  /\ chats[id] # NoChat
  /\ IF userType(u) = "farmer" THEN chats[id].farmer = u ELSE chats[id].expert = u

\* POST /:id/assign query {_id, status: 'open', expert: {$exists: false}}
MatchesOpenUnassigned(id) ==
  /\ chats[id] # NoChat
  /\ chats[id].status = "open"
  /\ chats[id].expert = NoExpert

\* the server accepts a new request while fewer than MaxInFlight are pending
CanAccept(u) ==
  /\ reqs[u] = Idle
  /\ Cardinality({v \in DUsers : reqs[v] # Idle}) < MaxInFlight

Tick ==
  /\ now < MaxClock
  /\ now' = now + 1
  /\ UNCHANGED <<chats, reqs, assignOk, calls, socketVars, consultVars, sensorVars>>

\* POST /start
Start(f, id) ==
  /\ reqs[f] = Idle
  /\ chats[id] = NoChat
  /\ \A j \in ChatIds : j < id => chats[j] # NoChat
  /\ chats' = [chats EXCEPT ![id] = chatSchema(f)]
  /\ UNCHANGED <<reqs, assignOk, now, calls, socketVars, consultVars, sensorVars>>

\* POST /:id/message requests of a chat that have called save and await it
Appending(id) ==
  Cardinality({v \in DUsers : reqs[v].op = "message" /\ reqs[v].id = id})

\* POST /:id/message, up to the call of chat.save()
MessageFind(u, id) ==
  /\ CanAccept(u)
  /\ IF ~MatchesOwn(u, id)
     THEN UNCHANGED reqs
     ELSE /\ Len(chats[id].messages) + Appending(id) < MaxMsgs
          /\ reqs' = [reqs EXCEPT ![u] =
                [op |-> "message", id |-> id,
                 newMessage |-> [sender |-> userType(u), timestamp |-> now],
                 \* status is a modified path only when the assignment changes it
                 setStatus |-> (userType(u) = "expert" /\ chats[id].status = "open")]]
  /\ UNCHANGED <<chats, assignOk, now, calls, socketVars, consultVars, sensorVars>>

\* the store applies the save of POST /:id/message: $push of the new message
\* and $set of the modified paths
MessageSave(u) ==
  /\ reqs[u].op = "message"
  /\ LET id == reqs[u].id IN
     /\ chats' = [chats EXCEPT
            ![id].messages = Append(@, reqs[u].newMessage),
            ![id].status = IF reqs[u].setStatus THEN "in_progress" ELSE @]
  /\ reqs' = [reqs EXCEPT ![u] = Idle]
  /\ UNCHANGED <<assignOk, now, calls, socketVars, consultVars, sensorVars>>

\* PUT /:id/status, up to the call of chat.save()
StatusFind(u, id, status) ==
  /\ CanAccept(u)
  /\ IF ~MatchesOwn(u, id)
     THEN UNCHANGED reqs
     ELSE /\ reqs' = [reqs EXCEPT ![u] =
                [op |-> "status", id |-> id, status |-> status,
                 \* chat.status = status marks the path modified only on a change
                 setStatus |-> (status # chats[id].status)]]
  /\ UNCHANGED <<chats, assignOk, now, calls, socketVars, consultVars, sensorVars>>

\* chat.save() of PUT /:id/status: schema validation, then $set of status
\* when the assignment modified it
StatusSave(u) ==
  /\ reqs[u].op = "status"
  /\ LET id == reqs[u].id IN
     IF reqs[u].status \notin StatusEnum
     THEN UNCHANGED chats
     ELSE /\ chats' = [chats EXCEPT ![id].status =
                IF reqs[u].setStatus THEN reqs[u].status ELSE @]
  /\ reqs' = [reqs EXCEPT ![u] = Idle]
  /\ UNCHANGED <<assignOk, now, calls, socketVars, consultVars, sensorVars>>

\* POST /:id/rating (farmerAuth), up to the call of chat.save()
RatingFind(u, id, score) ==
  /\ CanAccept(u)
  /\ IF userType(u) # "farmer"
     THEN UNCHANGED reqs
     ELSE IF ~(chats[id] # NoChat /\ chats[id].farmer = u)
     THEN UNCHANGED reqs
     ELSE /\ reqs' = [reqs EXCEPT ![u] =
                [op |-> "rating", id |-> id, score |-> score,
                 setStatus |-> (chats[id].status # "closed")]]
  /\ UNCHANGED <<chats, assignOk, now, calls, socketVars, consultVars, sensorVars>>

\* chat.save() of POST /:id/rating: validation of rating.score, then $set of
\* rating and of status when 'closed' modified it
RatingSave(u) ==
  /\ reqs[u].op = "rating"
  /\ LET id == reqs[u].id IN
     IF ~(reqs[u].score >= 1 /\ reqs[u].score <= 5)
     THEN UNCHANGED chats
     ELSE /\ chats' = [chats EXCEPT
                ![id].score = reqs[u].score,
                ![id].status = IF reqs[u].setStatus THEN "closed" ELSE @]
  /\ reqs' = [reqs EXCEPT ![u] = Idle]
  /\ UNCHANGED <<assignOk, now, calls, socketVars, consultVars, sensorVars>>

\* POST /:id/assign (expertAuth), up to the call of chat.save()
AssignFind(u, id) ==
  /\ CanAccept(u)
  /\ IF userType(u) # "expert"
     THEN UNCHANGED reqs
     ELSE IF ~MatchesOpenUnassigned(id)
     THEN UNCHANGED reqs
     ELSE /\ reqs' = [reqs EXCEPT ![u] = [op |-> "assign", id |-> id]]
  /\ UNCHANGED <<chats, assignOk, now, calls, socketVars, consultVars, sensorVars>>

\* chat.save() of POST /:id/assign: $set of expert and status on the document
\* selected by _id alone
AssignSave(u) ==
  /\ reqs[u].op = "assign"
  /\ LET id == reqs[u].id IN
     /\ chats' = [chats EXCEPT ![id].expert = u, ![id].status = "in_progress"]
     /\ assignOk' = [assignOk EXCEPT ![id] = @ \cup {u}]
  /\ reqs' = [reqs EXCEPT ![u] = Idle]
  /\ UNCHANGED <<now, calls, socketVars, consultVars, sensorVars>>

(* ------------------- socket handler (socket.io) ------------------------ *)
\* User collection: _id and role
SUsers == {"f1", "e1", "a1"}
role(u) ==
  CASE u = "f1" -> "farmer"
    [] u = "e1" -> "expert"
    [] u = "a1" -> "admin"
    [] OTHER -> "none"

\* socket.handshake.auth.token: absent, not verifiable, or a signed id;
\* "gone" is signed for a user that is no longer in the collection
Tokens == {"absent", "garbage", "gone"} \cup SUsers
SocketIds == 1..MaxSockets
NoSocket == 0
NoUser == "nobody"
SChatIds == {"c1"}
\* chatId values a client may send: a stored one and an unknown one
SChatInputs == SChatIds \cup {"c9"}
\* handshake and outbox describe the step just taken
NoHandshake == [token |-> "", answer |-> "none"]
NoEvents == [by |-> "none", from |-> NoSocket, chatId |-> "", events |-> <<>>]

\* the middleware without its `if (!user)` refusal
AuthenticateNoUserCheck(token) ==
  IF token = "absent"
  THEN [ok |-> FALSE, user |-> NoUser, error |-> "Authentication error"]
  ELSE IF token = "garbage"
  THEN [ok |-> FALSE, user |-> NoUser, error |-> "Authentication error"]
  ELSE [ok |-> TRUE, user |-> token, error |-> ""]

\* io.use middleware: the user attached to the socket, or the Error given to next
Authenticate(token) ==
  IF token = "absent"
  THEN [ok |-> FALSE, user |-> NoUser, error |-> "Authentication error"]
  ELSE IF token = "garbage"
  THEN [ok |-> FALSE, user |-> NoUser, error |-> "Authentication error"]
  ELSE IF token \notin SUsers
  THEN [ok |-> FALSE, user |-> NoUser, error |-> "User not found"]
  ELSE [ok |-> TRUE, user |-> token, error |-> ""]

UserRoom(u) == "user_" \o u

\* the joins with the role test of the experts room left out
JoinedRoomsNoRoleTest(u) ==
  {role(u), UserRoom(u), "experts"}
    \cup (IF role(u) = "admin" THEN {"admins"} ELSE {})

\* the socket.join calls of io.on('connection')
JoinedRooms(u) ==
  {role(u), UserRoom(u)}
    \cup (IF role(u) = "expert" THEN {"experts"} ELSE {})
    \cup (IF role(u) = "admin" THEN {"admins"} ELSE {})

\* io.to(room).emit(ev): one event per socket that is in the room
RECURSIVE ToRoom(_, _, _)
ToRoom(members, ev, about) ==
  IF members = {} THEN <<>>
  ELSE LET m == CHOOSE x \in members : \A y \in members : x <= y
       IN <<[to |-> m, ev |-> ev, about |-> about]>>
            \o ToRoom(members \ {m}, ev, about)

InRoom(room) == {s \in SocketIds : room \in rooms[s]}

FreeSocket == CHOOSE s \in SocketIds :
                 /\ sockets[s].state = "new"
                 /\ \A t \in SocketIds : t < s => sockets[t].state # "new"

\* a registry that keeps the entry a user already has
MapSetIfAbsent(map, key, value) ==
  IF map[key] = NoSocket THEN [map EXCEPT ![key] = value] ELSE map

\* connectedUsers.set(key, value)
MapSet(map, key, value) == [map EXCEPT ![key] = value]

\* a connection attempt: io.use, then io.on('connection') up to the handler
\* registrations
Connect(token) ==
  /\ LET a == Authenticate(token) IN
     IF ~a.ok
     THEN /\ handshake' = [token |-> token, answer |-> a.error]
          /\ UNCHANGED <<sockets, connectedUsers, rooms, pending>>
     ELSE /\ \E s \in SocketIds : sockets[s].state = "new"
          /\ LET s == FreeSocket
                 u == a.user
             IN /\ sockets' = [sockets EXCEPT ![s] = [user |-> u, state |-> "open"]]
                /\ connectedUsers' = MapSet(connectedUsers, u, s)
                /\ rooms' = [rooms EXCEPT ![s] = JoinedRooms(u)]
                /\ pending' = IF role(u) = "expert"
                              THEN pending \cup {[user |-> u, availability |-> "available",
                                                 notify |-> FALSE]}
                              ELSE pending
                /\ handshake' = [token |-> token, answer |-> "connected"]
  /\ outbox' = NoEvents
  /\ UNCHANGED <<availability, schats, sreqs, chatVars, consultVars, sensorVars, now>>

\* socket.on('disconnect'), up to the await; socket.io has already taken the
\* socket out of its rooms
Disconnect(s) ==
  /\ sockets[s].state = "open"
  /\ LET u == sockets[s].user IN
     /\ sockets' = [sockets EXCEPT ![s].state = "closed"]
     /\ rooms' = [rooms EXCEPT ![s] = {}]
     /\ connectedUsers' = [connectedUsers EXCEPT ![u] = NoSocket]
     /\ pending' = IF role(u) = "expert"
                   THEN pending \cup {[user |-> u, availability |-> "offline",
                                      notify |-> TRUE]}
                   ELSE pending
  /\ handshake' = NoHandshake
  /\ outbox' = NoEvents
  /\ UNCHANGED <<availability, schats, sreqs, chatVars, consultVars, sensorVars, now>>

\* the store applies one User.findByIdAndUpdate; the disconnect handler then
\* notifies the admins room
ApplyUpdate(w) ==
  /\ w \in pending
  /\ pending' = pending \ {w}
  /\ availability' = [availability EXCEPT ![w.user] = w.availability]
  /\ outbox' = IF w.notify
               THEN [by |-> "disconnect", from |-> NoSocket, chatId |-> "",
                     events |-> ToRoom(InRoom("admins"), "expert_availability_changed", w.user)]
               ELSE NoEvents
  /\ handshake' = NoHandshake
  /\ UNCHANGED <<sockets, connectedUsers, rooms, schats, sreqs, chatVars, consultVars, sensorVars, now>>

\* chat.participants.some(p => p.user._id === socket.user._id)
isParticipant(chat, u) == \E i \in 1..Len(chat.participants) : chat.participants[i] = u

\* send_message handlers of a chat that have called save and await it
Sending(chatId) ==
  Cardinality({t \in SocketIds : sreqs[t].op = "send" /\ sreqs[t].chatId = chatId})

\* socket.on('send_message') up to the await of chat.addMessage, which takes
\* the timestamp, pushes the message and calls save
SendFind(s, chatId) ==
  /\ sockets[s].state = "open"
  /\ sreqs[s] = Idle
  /\ LET u == sockets[s].user IN
     IF chatId \notin SChatIds
     THEN /\ outbox' = [by |-> "send_message", from |-> s, chatId |-> chatId,
                        events |-> <<[to |-> s, ev |-> "error", about |-> "Chat not found"]>>]
          /\ UNCHANGED sreqs
     ELSE IF ~isParticipant(schats[chatId], u)
     THEN /\ outbox' = [by |-> "send_message", from |-> s, chatId |-> chatId,
                        events |-> <<[to |-> s, ev |-> "error",
                                      about |-> "Not authorized to send message"]>>]
          /\ UNCHANGED sreqs
     ELSE /\ Len(schats[chatId].messages) + Sending(chatId) < MaxMsgs
          /\ sreqs' = [sreqs EXCEPT ![s] =
                 [op |-> "send", chatId |-> chatId,
                  message |-> [sender |-> u, timestamp |-> now,
                              isRead |-> FALSE, readBy |-> <<>>]]]
          /\ outbox' = NoEvents
  /\ handshake' = NoHandshake
  /\ UNCHANGED <<sockets, connectedUsers, rooms, availability, pending,
                 schats, chatVars, consultVars, sensorVars, now>>

\* first forEach of send_message: new_message to the registered socket of
\* every participant
RECURSIVE EmitNewMessage(_, _)
EmitNewMessage(participants, sender) ==
  IF participants = <<>> THEN <<>>
  ELSE LET p == Head(participants)
           participantSocketId == connectedUsers[p]
       IN (IF participantSocketId # NoSocket
           THEN <<[to |-> participantSocketId, ev |-> "new_message", about |-> sender]>>
           ELSE <<>>)
          \o EmitNewMessage(Tail(participants), sender)

\* second forEach of send_message: for every other participant without an
\* entry, socket.emit('send_notification') on the sender's own socket
RECURSIVE EmitNotification(_, _, _)
EmitNotification(participants, sender, s) ==
  IF participants = <<>> THEN <<>>
  ELSE LET p == Head(participants)
       IN (IF p # sender /\ connectedUsers[p] = NoSocket
           THEN <<[to |-> s, ev |-> "send_notification", about |-> p]>>
           ELSE <<>>)
          \o EmitNotification(Tail(participants), sender, s)

\* the store applies the save of addMessage and the handler emits
SendSave(s) ==
  /\ sreqs[s].op = "send"
  /\ LET chatId == sreqs[s].chatId
         u == sockets[s].user
         ps == schats[chatId].participants
     IN \* $push of the message; a push on the messages array increments __v
        /\ schats' = [schats EXCEPT ![chatId].messages = Append(@, sreqs[s].message),
                                     ![chatId].v = @ + 1]
        /\ outbox' = [by |-> "send_message", from |-> s, chatId |-> chatId,
                      events |-> EmitNewMessage(ps, u) \o EmitNotification(ps, u, s)]
  /\ sreqs' = [sreqs EXCEPT ![s] = Idle]
  /\ handshake' = NoHandshake
  /\ UNCHANGED <<sockets, connectedUsers, rooms, availability, pending,
                 chatVars, consultVars, sensorVars, now>>

\* targetRole values a client may send: the four cases of the switch and a
\* value that matches none
TargetInputs == {"all", "farmers", "experts", "admins", "farmer"}

\* the sockets the switch of admin_notification emits to
Targeted(targetRole) ==
  CASE targetRole = "all" -> {t \in SocketIds : sockets[t].state = "open"}
    [] targetRole = "farmers" -> InRoom("farmer")
    [] targetRole = "experts" -> InRoom("experts")
    [] targetRole = "admins" -> InRoom("admins")
    [] OTHER -> {}

\* socket.on('admin_notification')
AdminNotification(s, targetRole) ==
  /\ sockets[s].state = "open"
  /\ outbox' = [by |-> "admin_notification", from |-> s, chatId |-> "",
                target |-> targetRole,
                events |-> ToRoom(Targeted(targetRole), "admin_notification", targetRole)]
  /\ handshake' = NoHandshake
  /\ UNCHANGED <<sockets, connectedUsers, rooms, availability, pending,
                 schats, sreqs, chatVars, consultVars, sensorVars, now>>

\* markAsRead with the `!message.isRead` test left out
markAsReadNoIsReadTest(messages, userId) ==
  [i \in 1..Len(messages) |->
     IF messages[i].sender # userId
     THEN [messages[i] EXCEPT !.isRead = TRUE, !.readBy = Append(@, userId)]
     ELSE messages[i]]

\* the forEach of chatSchema.methods.markAsRead; readBy is the array of the
\* users of its entries, in push order
markAsRead(messages, userId) ==
  [i \in 1..Len(messages) |->
     IF messages[i].sender # userId /\ ~messages[i].isRead
     THEN [messages[i] EXCEPT !.isRead = TRUE, !.readBy = Append(@, userId)]
     ELSE messages[i]]

\* socket.on('mark_read') up to the await of chat.markAsRead, which runs the
\* forEach, sets the participant's lastSeen and calls save
MarkFind(s, chatId) ==
  /\ sockets[s].state = "open"
  /\ sreqs[s] = Idle
  /\ LET u == sockets[s].user IN
     IF chatId \notin SChatIds
     THEN \* `if (chat)` is false: the handler ends without emitting
          /\ outbox' = [by |-> "mark_read_error", from |-> s, chatId |-> chatId,
                        events |-> <<>>]
          /\ UNCHANGED sreqs
     ELSE LET chat == schats[chatId] IN
          /\ sreqs' = [sreqs EXCEPT ![s] =
               [op |-> "mark", chatId |-> chatId, v |-> chat.v,
                \* paths modified: messages.i.isRead / messages.i.readBy,
                \* participants.j.lastSeen
                modified |-> (markAsRead(chat.messages, u) # chat.messages
                                \/ isParticipant(chat, u)),
                pushed |-> (markAsRead(chat.messages, u) # chat.messages)]]
          /\ outbox' = NoEvents
  /\ handshake' = NoHandshake
  /\ UNCHANGED <<sockets, connectedUsers, rooms, availability, pending,
                 schats, chatVars, consultVars, sensorVars, now>>

\* forEach of mark_read: messages_read to the registered socket of every
\* other participant
RECURSIVE EmitMessagesRead(_, _)
EmitMessagesRead(participants, reader) ==
  IF participants = <<>> THEN <<>>
  ELSE LET p == Head(participants)
           participantSocketId == connectedUsers[p]
       IN (IF p # reader /\ participantSocketId # NoSocket
           THEN <<[to |-> participantSocketId, ev |-> "messages_read", about |-> reader]>>
           ELSE <<>>)
          \o EmitMessagesRead(Tail(participants), reader)

\* the store applies the save of markAsRead.  The update addresses array
\* elements by position, so it carries the loaded __v in its condition and
\* fails (VersionError, caught and logged) when the document has moved on;
\* a push on a readBy array increments __v.  After a save the handler emits.
MarkSave(s) ==
  /\ sreqs[s].op = "mark"
  /\ LET chatId == sreqs[s].chatId
         u == sockets[s].user
         chat == schats[chatId]
     IN IF sreqs[s].modified /\ sreqs[s].v # chat.v
        THEN \* catch (error): console.error only
             /\ UNCHANGED schats
             /\ outbox' = [by |-> "mark_read_error", from |-> s, chatId |-> chatId,
                           events |-> <<>>]
        ELSE /\ schats' = [schats EXCEPT
                   ![chatId].messages = markAsRead(@, u),
                   ![chatId].v = IF sreqs[s].pushed THEN @ + 1 ELSE @]
             /\ outbox' = [by |-> "mark_read", from |-> s, chatId |-> chatId,
                           events |-> EmitMessagesRead(chat.participants, u)]
  /\ sreqs' = [sreqs EXCEPT ![s] = Idle]
  /\ handshake' = NoHandshake
  /\ UNCHANGED <<sockets, connectedUsers, rooms, availability, pending,
                 chatVars, consultVars, sensorVars, now>>

\* participants of the stored chat: type farmer_expert, or a group with the admin
ParticipantChoices == {<<"f1", "e1">>, <<"f1", "e1", "a1">>}

\* documents of the collection before the first event: participants, the
\* users whose participant entry has isActive false, no message, __v 0
StoredChats ==
  {[participants |-> ps, inactive |-> l, messages |-> <<>>, v |-> 0] :
     ps \in ParticipantChoices, l \in {{}}} \cup
  {[participants |-> <<"f1", "e1", "a1">>, inactive |-> {"a1"}, messages |-> <<>>, v |-> 0]}

\* findOrCreateChat(user1Id, user2Id, type): callers and arguments
Callers == {1, 2}
PairInputs == {<<"f1", "e1">>, <<"f1", "a1">>}
TypeInputs == {"farmer_expert", "group"}
NoResultChat == "error"
\* chatSchema.type of the stored documents
chatType(chat) == IF Len(chat.participants) = 2 THEN "farmer_expert" ELSE "group"

\* the findOne query {type, 'participants.user': {$all: [user1Id, user2Id]},
\* status: 'active'}; every stored document has the default status active
MatchesPair(c, user1Id, user2Id, type) ==
  /\ chatType(schats[c]) = type
  /\ isParticipant(schats[c], user1Id)
  /\ isParticipant(schats[c], user2Id)

\* findOrCreateChat up to the await of newChat.save()
FindOrCreateFind(k, user1Id, user2Id, type) ==
  /\ calls[k] = Idle
  /\ IF \E c \in SChatIds : MatchesPair(c, user1Id, user2Id, type)
     THEN calls' = [calls EXCEPT ![k] =
            [op |-> "done", user1Id |-> user1Id, user2Id |-> user2Id, type |-> type,
             result |-> CHOOSE c \in SChatIds : MatchesPair(c, user1Id, user2Id, type)]]
     ELSE calls' = [calls EXCEPT ![k] =
            [op |-> "create", user1Id |-> user1Id, user2Id |-> user2Id, type |-> type]]
  /\ handshake' = NoHandshake
  /\ outbox' = NoEvents
  /\ UNCHANGED <<chats, reqs, assignOk, sockets, connectedUsers, rooms, availability,
                 pending, schats, sreqs, consultVars, sensorVars, now>>

\* newChat.save(): validation runs before the pre('save') middleware that
\* generates chatId, chatId is required and the document has none, so the
\* save is rejected and nothing is inserted
FindOrCreateSave(k) ==
  /\ calls[k].op = "create"
  /\ calls' = [calls EXCEPT ![k] =
        [op |-> "done", user1Id |-> calls[k].user1Id, user2Id |-> calls[k].user2Id,
         type |-> calls[k].type, result |-> NoResultChat]]
  /\ handshake' = NoHandshake
  /\ outbox' = NoEvents
  /\ UNCHANGED <<chats, reqs, assignOk, sockets, connectedUsers, rooms, availability,
                 pending, schats, sreqs, consultVars, sensorVars, now>>

(* ------------------- consultation routes (server) ---------------------- *)
ConsultIds == {1}
NoRating == [score |-> NoScore, ratedBy |-> NoUser]
\* enum of the consultation chatSchema.status
CStatusEnum == {"active", "resolved", "closed", "pending"}
\* PUT /:id/status never looks at validationResult: any string reaches save
CStatusInputs == CStatusEnum \cup {"open"}
NoResponse == 0

\* User.find({role: 'expert', isActive: true})
ActiveExperts == {u \in SUsers : role(u) = "expert"}

\* POST / : new Chat({participants, messages: [initial]}), updateLastMessage, save
Create(u, id) ==
  /\ creqs[u] = Idle
  /\ consults[id] = NoChat
  /\ IF ActiveExperts = {}
     THEN /\ cres' = 503
          /\ UNCHANGED consults
     ELSE \E selectedExpert \in ActiveExperts :
          /\ consults' = [consults EXCEPT ![id] =
                [participants |-> <<[user |-> u, role |-> role(u)],
                                    [user |-> selectedExpert, role |-> "expert"]>>,
                 status |-> "active",
                 messages |-> <<[sender |-> u, readBy |-> <<>>]>>,
                 rating |-> NoRating, v |-> 0]]
          /\ cres' = 201
  /\ UNCHANGED <<creqs, greqs, chatVars, socketVars, sensorVars, now>>

\* chat.participants.some(p => p.user === req.user._id)
isConsultParticipant(chat, u) ==
  \E i \in 1..Len(chat.participants) : chat.participants[i].user = u

\* PUT /:id/status up to the await of chat.save()
CStatusFind(u, id, status) ==
  /\ creqs[u] = Idle
  /\ IF consults[id] = NoChat
     THEN /\ cres' = 404
          /\ UNCHANGED creqs
     ELSE IF ~isConsultParticipant(consults[id], u)
     THEN /\ cres' = 403
          /\ UNCHANGED creqs
     ELSE /\ creqs' = [creqs EXCEPT ![u] =
                [op |-> "status", id |-> id, status |-> status,
                 setStatus |-> (status # consults[id].status)]]
          /\ cres' = NoResponse
  /\ UNCHANGED <<consults, greqs, chatVars, socketVars, sensorVars, now>>

\* chat.save() of PUT /:id/status: enum validation, then $set of status
CStatusSave(u) ==
  /\ creqs[u].op = "status"
  /\ LET id == creqs[u].id IN
     IF creqs[u].status \notin CStatusEnum
     THEN /\ cres' = 500
          /\ UNCHANGED consults
     ELSE /\ consults' = [consults EXCEPT ![id].status =
                IF creqs[u].setStatus THEN creqs[u].status ELSE @]
          /\ cres' = 200
  /\ creqs' = [creqs EXCEPT ![u] = Idle]
  /\ UNCHANGED <<greqs, chatVars, socketVars, sensorVars, now>>

\* chat.participants.find(p => p.user === req.user._id && p.role === 'farmer')
farmerParticipant(chat, u) ==
  \E i \in 1..Len(chat.participants) :
     chat.participants[i].user = u /\ chat.participants[i].role = "farmer"

\* POST /:id/rate up to the await of chat.save()
RateFind(u, id, score) ==
  /\ creqs[u] = Idle
  /\ IF ~(score >= 1 /\ score <= 5)
     THEN /\ cres' = 400
          /\ UNCHANGED creqs
     ELSE IF consults[id] = NoChat
     THEN /\ cres' = 404
          /\ UNCHANGED creqs
     ELSE IF ~farmerParticipant(consults[id], u)
     THEN /\ cres' = 403
          /\ UNCHANGED creqs
     ELSE IF consults[id].rating.ratedBy # NoUser
     THEN /\ cres' = 400
          /\ UNCHANGED creqs
     ELSE /\ creqs' = [creqs EXCEPT ![u] = [op |-> "rate", id |-> id, score |-> score]]
          /\ cres' = NoResponse
  /\ UNCHANGED <<consults, greqs, chatVars, socketVars, sensorVars, now>>

\* chat.save() of POST /:id/rate: $set of rating, nothing else
RateSave(u) ==
  /\ creqs[u].op = "rate"
  /\ LET id == creqs[u].id IN
     consults' = [consults EXCEPT ![id].rating =
                     [score |-> creqs[u].score, ratedBy |-> u]]
  /\ cres' = 200
  /\ creqs' = [creqs EXCEPT ![u] = Idle]
  /\ UNCHANGED <<greqs, chatVars, socketVars, sensorVars, now>>

\* requests of GET /:id and POST /:id/messages in flight; one user may have
\* several
Slots == {1, 2}

\* the forEach of GET /:id: the messages whose readBy has no entry of the user
Unread(messages, u) ==
  {i \in 1..Len(messages) :
     \A k \in 1..Len(messages[i].readBy) : messages[i].readBy[k] # u}

\* GET /:id up to the await of chat.save()
GetFind(k, u, id) ==
  /\ greqs[k] = Idle
  /\ IF consults[id] = NoChat
     THEN /\ cres' = 404
          /\ UNCHANGED greqs
     ELSE IF ~isConsultParticipant(consults[id], u)
     THEN /\ cres' = 403
          /\ UNCHANGED greqs
     ELSE /\ greqs' = [greqs EXCEPT ![k] =
                [op |-> "get", user |-> u, id |-> id, v |-> consults[id].v,
                 push |-> Unread(consults[id].messages, u)]]
          /\ cres' = NoResponse
  /\ UNCHANGED <<consults, creqs, chatVars, socketVars, sensorVars, now>>

GetSaveNoVersionCheck(k) ==
  /\ greqs[k].op = "get"
  /\ LET id == greqs[k].id
         u == greqs[k].user
     IN /\ consults' = [consults EXCEPT ![id].messages =
               [i \in 1..Len(@) |->
                  IF i \in greqs[k].push
                  THEN [@[i] EXCEPT !.readBy = Append(@, u)]
                  ELSE @[i]],
               ![id].v = IF greqs[k].push # {} THEN @ + 1 ELSE @]
        /\ cres' = 200
  /\ greqs' = [greqs EXCEPT ![k] = Idle]
  /\ UNCHANGED <<creqs, chatVars, socketVars, sensorVars, now>>
\* the store applies the save of GET /:id: $push on messages.<i>.readBy for
\* the messages that had no entry at load.  A push on a path below an array
\* position carries the loaded __v in its condition and increments __v; when
\* the document has moved on the save fails (VersionError, answered 500).
GetSave(k) ==
  /\ greqs[k].op = "get"
  /\ LET id == greqs[k].id
         u == greqs[k].user
     IN IF greqs[k].push # {} /\ greqs[k].v # consults[id].v
        THEN /\ UNCHANGED consults
             /\ cres' = 500
        ELSE /\ consults' = [consults EXCEPT ![id].messages =
                  [i \in 1..Len(@) |->
                     IF i \in greqs[k].push
                     THEN [@[i] EXCEPT !.readBy = Append(@, u)]
                     ELSE @[i]],
                  ![id].v = IF greqs[k].push # {} THEN @ + 1 ELSE @]
             /\ cres' = 200
  /\ greqs' = [greqs EXCEPT ![k] = Idle]
  /\ UNCHANGED <<creqs, chatVars, socketVars, sensorVars, now>>

\* POST /:id/messages requests of a chat that have called save and await it
Posting(id) ==
  Cardinality({k \in Slots : greqs[k].op = "post" /\ greqs[k].id = id})

\* POST /:id/messages up to the await inside chat.updateLastMessage
PostFind(k, u, id) ==
  /\ greqs[k] = Idle
  /\ IF consults[id] = NoChat
     THEN /\ cres' = 404
          /\ UNCHANGED greqs
     ELSE IF ~isConsultParticipant(consults[id], u)
     THEN /\ cres' = 403
          /\ UNCHANGED greqs
     ELSE /\ Len(consults[id].messages) + Posting(id) < MaxMsgs
          /\ greqs' = [greqs EXCEPT ![k] = [op |-> "post", user |-> u, id |-> id]]
          /\ cres' = NoResponse
  /\ UNCHANGED <<consults, creqs, chatVars, socketVars, sensorVars, now>>

\* the store applies the save of updateLastMessage: $push of the message
\* (which increments __v) and $set of lastMessage
PostSave(k) ==
  /\ greqs[k].op = "post"
  /\ consults' = [consults EXCEPT
        ![greqs[k].id].messages = Append(@, [sender |-> greqs[k].user, readBy |-> <<>>]),
        ![greqs[k].id].v = @ + 1]
  /\ cres' = 200
  /\ greqs' = [greqs EXCEPT ![k] = Idle]
  /\ UNCHANGED <<creqs, chatVars, socketVars, sensorVars, now>>

(* ----------------------- sensors (server) ------------------------------- *)
\* metrics that sensorSchema.thresholds configures
Metrics == {"temperature", "humidity", "soilMoisture", "pH"}
\* a path that is not set: undefined in the code
Undefined == 0 - 1
DeviceIds == {"d1"}
\* deviceId values a client may send: the registered one and an unknown one
DeviceInputs == DeviceIds \cup {"d9"}
\* clients that may have a POST /:deviceId/reading in flight
Clients == {1, 2}

Reading(t, h, s, p) ==
  [temperature |-> t, humidity |-> h, soilMoisture |-> s, pH |-> p]
Limits(min, max) == [min |-> min, max |-> max]

NoThresholds == [m \in Metrics |-> Limits(Undefined, Undefined)]
NoReading == [n |-> 0, data |-> Reading(Undefined, Undefined, Undefined, Undefined)]
NoResult == [status |-> NoResponse, reading |-> NoReading.data,
             thresholds |-> NoThresholds, alerts |-> <<>>]

\* req.body of POST /:deviceId/reading: value of each metric, or no such key;
\* 20, 30 and 40 are below, at and above a limit of 30
ReadingInputs ==
  {Reading(30, 30, 30, 30),
   Reading(20, 20, 20, 20),
   Reading(40, 40, 40, 40),
   Reading(Undefined, Undefined, 20, Undefined),
   Reading(40, 20, 30, Undefined)}

\* req.body.thresholds of PUT /:id
ThresholdInputs ==
  {NoThresholds,
   [m \in Metrics |-> Limits(30, 30)],
   [m \in Metrics |-> IF m = "soilMoisture" THEN Limits(30, Undefined)
                       ELSE Limits(Undefined, Undefined)]}

\* `value < min` and `value > max` of JavaScript: false when a side is undefined
Below(value, min) == value # Undefined /\ min # Undefined /\ value < min
Above(value, max) == value # Undefined /\ max # Undefined /\ value > max

\* one element of the alerts array; message stands for the template string
\* `<Metric> too low|high: <value><unit>`
Alert(metric, bound, value, severity) ==
  [type |-> "abnormal_reading",
   message |-> [metric |-> metric, bound |-> bound, value |-> value],
   severity |-> severity, acknowledged |-> FALSE]

\* checkThresholds with severity 'high' on the low-temperature alert
checkThresholdsAllHigh(thresholds, reading) ==
  (IF reading.temperature # Undefined
   THEN IF Below(reading.temperature, thresholds.temperature.min)
        THEN <<Alert("temperature", "low", reading.temperature, "high")>>
        ELSE IF Above(reading.temperature, thresholds.temperature.max)
        THEN <<Alert("temperature", "high", reading.temperature, "high")>>
        ELSE <<>>
   ELSE <<>>)
  \o
  (IF reading.soilMoisture # Undefined
   THEN IF Below(reading.soilMoisture, thresholds.soilMoisture.min)
        THEN <<Alert("soilMoisture", "low", reading.soilMoisture, "high")>>
        ELSE <<>>
   ELSE <<>>)

\* sensorSchema.methods.checkThresholds
checkThresholds(thresholds, reading) ==
  (IF reading.temperature # Undefined
   THEN IF Below(reading.temperature, thresholds.temperature.min)
        THEN <<Alert("temperature", "low", reading.temperature, "medium")>>
        ELSE IF Above(reading.temperature, thresholds.temperature.max)
        THEN <<Alert("temperature", "high", reading.temperature, "high")>>
        ELSE <<>>
   ELSE <<>>)
  \o
  (IF reading.soilMoisture # Undefined
   THEN IF Below(reading.soilMoisture, thresholds.soilMoisture.min)
        THEN <<Alert("soilMoisture", "low", reading.soilMoisture, "high")>>
        ELSE <<>>
   ELSE <<>>)

\* the retention window of addReading (1000 in the code, scaled down)
RetentionWindow == 2
\* readings accepted in one behaviour
MaxIngest == 3

\* slice(-RetentionWindow)
LastN(readings) ==
  IF Len(readings) > RetentionWindow
  THEN SubSeq(readings, Len(readings) - RetentionWindow + 1, Len(readings))
  ELSE readings

\* addReading keeping the first RetentionWindow elements on overflow
addReadingKeepOldest(readings, readingData) ==
  IF Len(Append(readings, readingData)) > RetentionWindow
  THEN SubSeq(Append(readings, readingData), 1, RetentionWindow)
  ELSE Append(readings, readingData)

\* the readings array of addReading before save: push, then slice(-1000) when
\* the length exceeds the window
addReading(readings, readingData) ==
  IF Len(Append(readings, readingData)) > RetentionWindow
  THEN LastN(Append(readings, readingData))
  ELSE Append(readings, readingData)

\* the farmer the sensor belongs to, and another farmer
Owner == "f1"
FarmerIds == {"f1", "f2"}
\* sockets of the server app; the io.on('connection') of this app has no
\* authentication, holder is the person at the client
AppSockets == {1, 2}
holder(x) == IF x = 1 THEN "f1" ELSE "f2"
FarmerRoom(farmerId) == "farmer-" \o farmerId

\* req.body of PUT /:id: any keys; thresholds, or an alerts array
BodyInputs ==
  {[thresholds |-> t] : t \in ThresholdInputs} \cup {[alerts |-> <<>>]}

\* PUT /:id : Object.assign(sensor, req.body) and save; every key of the
\* body is assigned to the document
Update(body) ==
  /\ IF "thresholds" \in DOMAIN body
     THEN /\ body.thresholds # sensor.thresholds
          /\ sensor' = [sensor EXCEPT !.thresholds = body.thresholds]
     ELSE \* $set of the alerts array, which increments __v
          /\ body.alerts # sensor.alerts
          /\ sensor' = [sensor EXCEPT !.alerts = body.alerts, !.v = @ + 1]
  /\ nres' = [NoResult EXCEPT !.status = 200]
  /\ sensorOut' = <<>>
  /\ UNCHANGED <<nreqs, ingested, overlapped, joined,
                 chatVars, socketVars, consultVars, now>>

\* POST /:deviceId/reading up to the await of sensor.addReading: findOne,
\* checkThresholds, alerts.push, and addReading up to its call of save
IngestFind(c, deviceId, data) ==
  /\ nreqs[c] = Idle
  /\ IF deviceId \notin DeviceIds
     THEN /\ nres' = [NoResult EXCEPT !.status = 404]
          /\ UNCHANGED <<nreqs, ingested, overlapped>>
     ELSE /\ ingested < MaxIngest
          /\ LET readingData == [n |-> ingested + 1, data |-> data]
                 alerts == checkThresholds(sensor.thresholds, data)
             IN /\ nreqs' = [nreqs EXCEPT ![c] =
                      [op |-> "ingest", readingData |-> readingData, alerts |-> alerts,
                       v |-> sensor.v,
                       \* this.readings = slice(...) makes the save write the
                       \* whole array instead of pushing one element
                       sliced |-> (Len(sensor.readings) + 1 > RetentionWindow),
                       readings |-> IF Len(sensor.readings) + 1 > RetentionWindow
                                    THEN addReading(sensor.readings, readingData)
                                    ELSE <<>>]]
                /\ nres' = [status |-> NoResponse, reading |-> data,
                            thresholds |-> sensor.thresholds, alerts |-> alerts]
          /\ ingested' = ingested + 1
          /\ overlapped' = (overlapped \/ \E d \in Clients : nreqs[d] # Idle)
  /\ sensorOut' = <<>>
  /\ UNCHANGED <<sensor, joined, chatVars, socketVars, consultVars, now>>

\* the sockets in a room of the server app
InAppRoom(room) == {x \in AppSockets : joined[x].connected /\ room \in joined[x].rooms}

\* the store applies the save of addReading: $push of the alerts, $set of
\* lastReading, and $push of the reading or $set of the sliced array.  A $set
\* of a whole array carries the loaded __v in its condition (VersionError,
\* answered 500, when the document has moved on); both forms increment __v.
\* After the save the handler emits sensor-data to the room of sensor.farmer.
IngestSave(c) ==
  /\ nreqs[c].op = "ingest"
  /\ IF nreqs[c].sliced /\ nreqs[c].v # sensor.v
     THEN /\ UNCHANGED sensor
          /\ nres' = [NoResult EXCEPT !.status = 500]
          /\ sensorOut' = <<>>
     ELSE /\ sensor' = [sensor EXCEPT
                !.alerts = @ \o nreqs[c].alerts,
                !.lastReading = nreqs[c].readingData,
                !.readings = IF nreqs[c].sliced THEN nreqs[c].readings
                             ELSE Append(@, nreqs[c].readingData),
                !.v = @ + 1]
          /\ nres' = [NoResult EXCEPT !.status = 200]
          /\ sensorOut' = ToRoom(InAppRoom(FarmerRoom(sensor.farmer)), "sensor-data",
                                 nreqs[c].readingData.n)
  /\ nreqs' = [nreqs EXCEPT ![c] = Idle]
  /\ UNCHANGED <<ingested, overlapped, joined, chatVars, socketVars, consultVars, now>>

\* PUT /:id/alerts/:alertId/acknowledge by the owning farmer, up to the await
\* of sensor.save(); alertId names the alert at a position of the log
AckFind(c, alertId) ==
  /\ nreqs[c] = Idle
  /\ IF alertId > Len(sensor.alerts)
     THEN /\ nres' = [NoResult EXCEPT !.status = 404]
          /\ UNCHANGED nreqs
     ELSE /\ ~sensor.alerts[alertId].acknowledged
          /\ nreqs' = [nreqs EXCEPT ![c] = [op |-> "ack", alertId |-> alertId, v |-> sensor.v]]
          /\ nres' = NoResult
  /\ sensorOut' = <<>>
  /\ UNCHANGED <<sensor, ingested, overlapped, joined,
                 chatVars, socketVars, consultVars, now>>

\* the store applies the save of the acknowledgment: $set of
\* alerts.<position>.acknowledged*, conditioned on the loaded __v
AckSave(c) ==
  /\ nreqs[c].op = "ack"
  /\ IF nreqs[c].v # sensor.v
     THEN /\ UNCHANGED sensor
          /\ nres' = [NoResult EXCEPT !.status = 500]
     ELSE /\ sensor' = [sensor EXCEPT !.alerts[nreqs[c].alertId].acknowledged = TRUE]
          /\ nres' = [NoResult EXCEPT !.status = 200]
  /\ nreqs' = [nreqs EXCEPT ![c] = Idle]
  /\ sensorOut' = <<>>
  /\ UNCHANGED <<ingested, overlapped, joined, chatVars, socketVars, consultVars, now>>

\* io.on('connection') of the server app
AppConnect(x) ==
  /\ ~joined[x].connected
  /\ joined' = [joined EXCEPT ![x].connected = TRUE]
  /\ sensorOut' = <<>>
  /\ nres' = NoResult
  /\ UNCHANGED <<sensor, nreqs, ingested, overlapped,
                 chatVars, socketVars, consultVars, now>>

\* socket.on('join-farmer', farmerId)
JoinFarmer(x, farmerId) ==
  /\ joined[x].connected
  /\ FarmerRoom(farmerId) \notin joined[x].rooms
  /\ joined' = [joined EXCEPT ![x].rooms = @ \cup {FarmerRoom(farmerId)}]
  /\ sensorOut' = <<>>
  /\ nres' = NoResult
  /\ UNCHANGED <<sensor, nreqs, ingested, overlapped,
                 chatVars, socketVars, consultVars, now>>

\* the setInterval callback: io.emit('sensor-data', simulated values)
Simulate ==
  /\ \E x \in AppSockets : joined[x].connected
  /\ sensorOut' = ToRoom({x \in AppSockets : joined[x].connected}, "sensor-data", 0)
  /\ nres' = NoResult
  /\ UNCHANGED <<sensor, nreqs, ingested, overlapped, joined,
                 chatVars, socketVars, consultVars, now>>

Init ==
  /\ chats = [id \in ChatIds |-> NoChat]
  /\ reqs = [u \in DUsers |-> Idle]
  /\ assignOk = [id \in ChatIds |-> {}]
  /\ calls = [k \in Callers |-> Idle]
  /\ now = 0
  /\ sockets = [s \in SocketIds |-> [user |-> NoUser, state |-> "new"]]
  /\ connectedUsers = [u \in SUsers |-> NoSocket]
  /\ rooms = [s \in SocketIds |-> {}]
  /\ availability = [u \in SUsers |-> "offline"]
  /\ pending = {}
  /\ handshake = NoHandshake
  /\ schats \in [SChatIds -> StoredChats]
  /\ sreqs = [s \in SocketIds |-> Idle]
  /\ outbox = NoEvents
  /\ consults = [id \in ConsultIds |-> NoChat]
  /\ creqs = [u \in SUsers |-> Idle]
  /\ cres = NoResponse
  /\ greqs = [k \in Slots |-> Idle]
  /\ sensor = [farmer |-> Owner, thresholds |-> NoThresholds, readings |-> <<>>,
               alerts |-> <<>>, lastReading |-> NoReading, v |-> 0]
  /\ joined = [x \in AppSockets |-> [connected |-> FALSE, rooms |-> {}]]
  /\ sensorOut = <<>>
  /\ nreqs = [c \in Clients |-> Idle]
  /\ ingested = 0
  /\ overlapped = FALSE
  /\ nres = NoResult

Next ==
  \/ \E f \in Farmers, id \in ChatIds : Start(f, id)
  \/ \E u \in DUsers, id \in ChatIds : MessageFind(u, id)
  \/ \E u \in DUsers : MessageSave(u)
  \/ \E u \in DUsers, id \in ChatIds, status \in StatusInputs : StatusFind(u, id, status)
  \/ \E u \in DUsers : StatusSave(u)
  \/ \E u \in DUsers, id \in ChatIds, score \in ScoreInputs : RatingFind(u, id, score)
  \/ \E u \in DUsers : RatingSave(u)
  \/ \E u \in DUsers, id \in ChatIds : AssignFind(u, id)
  \/ \E u \in DUsers : AssignSave(u)

\* Spec: the handlers within one reading of the clock
Spec == Init /\ [][Next]_vars

\* SpecT: start, assign and message with the clock advancing between their steps
NextT ==
  \/ Tick
  \/ \E f \in Farmers, id \in ChatIds : Start(f, id)
  \/ \E u \in DUsers, id \in ChatIds : AssignFind(u, id)
  \/ \E u \in DUsers : AssignSave(u)
  \/ \E u \in DUsers, id \in ChatIds : MessageFind(u, id)
  \/ \E u \in DUsers : MessageSave(u)

SpecT == Init /\ [][NextT]_vars
\* SpecS: the socket handler
NextS ==
  \/ \E token \in Tokens : Connect(token)
  \/ \E s \in SocketIds : Disconnect(s)
  \/ \E w \in pending : ApplyUpdate(w)
  \/ \E s \in SocketIds, chatId \in SChatInputs : SendFind(s, chatId)
  \/ \E s \in SocketIds : SendSave(s)

SpecS == Init /\ [][NextS]_vars

\* SpecA: connections and the admin broadcast of the socket handler
NextA ==
  \/ \E token \in Tokens : Connect(token)
  \/ \E s \in SocketIds : Disconnect(s)
  \/ \E w \in pending : ApplyUpdate(w)
  \/ \E s \in SocketIds, targetRole \in TargetInputs : AdminNotification(s, targetRole)

SpecA == Init /\ [][NextA]_vars

\* SpecC: the consultation routes
NextC ==
  \/ \E u \in SUsers, id \in ConsultIds : Create(u, id)
  \/ \E u \in SUsers, id \in ConsultIds, status \in CStatusInputs : CStatusFind(u, id, status)
  \/ \E u \in SUsers : CStatusSave(u)
  \/ \E u \in SUsers, id \in ConsultIds, score \in ScoreInputs : RateFind(u, id, score)
  \/ \E u \in SUsers : RateSave(u)

SpecC == Init /\ [][NextC]_vars

\* SpecG: reading and posting in consultations
NextG ==
  \/ \E u \in SUsers, id \in ConsultIds : Create(u, id)
  \/ \E k \in Slots, u \in SUsers, id \in ConsultIds : GetFind(k, u, id)
  \/ \E k \in Slots : GetSave(k)
  \/ \E k \in Slots, u \in SUsers, id \in ConsultIds : PostFind(k, u, id)
  \/ \E k \in Slots : PostSave(k)

SpecG == Init /\ [][NextG]_vars

\* SpecN: the threshold engine: thresholds are configured and one device
\* client posts readings
Device == {1}
NextN ==
  \/ \E thresholds \in ThresholdInputs : Update([thresholds |-> thresholds])
  \/ \E c \in Device, deviceId \in DeviceInputs, data \in ReadingInputs :
       IngestFind(c, deviceId, data)
  \/ \E c \in Device : IngestSave(c)

SpecN == Init /\ [][NextN]_vars

\* SpecW: readings posted by several clients to a sensor without thresholds
NextW ==
  \/ \E c \in Clients, deviceId \in DeviceInputs, data \in ReadingInputs :
       IngestFind(c, deviceId, data)
  \/ \E c \in Clients : IngestSave(c)

SpecW == Init /\ [][NextW]_vars

\* SpecL: the alert log: readings that breach, acknowledgments and updates
BreachInputs == {Reading(20, 20, 20, 20), Reading(30, 30, 30, 30)}
AlertIdInputs == 1..2
LogBodies == {body \in BodyInputs :
                "thresholds" \in DOMAIN body => body.thresholds.temperature # NoThresholds.temperature}
NextL ==
  \/ \E body \in LogBodies : Update(body)
  \/ \E c \in Clients, deviceId \in DeviceInputs, data \in BreachInputs :
       IngestFind(c, deviceId, data)
  \/ \E c \in Clients : IngestSave(c)
  \/ \E c \in Clients, alertId \in AlertIdInputs : AckFind(c, alertId)
  \/ \E c \in Clients : AckSave(c)

SpecL == Init /\ [][NextL]_vars

\* SpecD: delivery of sensor-data by the server app
NextD ==
  \/ \E x \in AppSockets : AppConnect(x)
  \/ \E x \in AppSockets, farmerId \in FarmerIds : JoinFarmer(x, farmerId)
  \/ \E c \in Device, deviceId \in DeviceInputs, data \in BreachInputs :
       IngestFind(c, deviceId, data)
  \/ \E c \in Device : IngestSave(c)
  \/ Simulate

SpecD == Init /\ [][NextD]_vars

\* SpecM: messages and read receipts over the socket handler, with the farmer
\* and the expert of the conversation connecting
Readers == {"f1", "e1"}
NextM ==
  \/ \E token \in Readers : Connect(token)
  \/ \E s \in SocketIds, chatId \in SChatInputs : SendFind(s, chatId)
  \/ \E s \in SocketIds : SendSave(s)
  \/ \E s \in SocketIds, chatId \in SChatInputs : MarkFind(s, chatId)
  \/ \E s \in SocketIds : MarkSave(s)

SpecM == Init /\ [][NextM]_vars

\* SpecF: calls of findOrCreateChat
NextF ==
  \/ \E k \in Callers, pair \in PairInputs, type \in TypeInputs :
       FindOrCreateFind(k, pair[1], pair[2], type)
  \/ \E k \in Callers : FindOrCreateSave(k)

SpecF == Init /\ [][NextF]_vars

\* SpecP: as SpecM, with every user of the collection connecting
NextP ==
  \/ \E token \in SUsers : Connect(token)
  \/ \E s \in SocketIds, chatId \in SChatInputs : SendFind(s, chatId)
  \/ \E s \in SocketIds : SendSave(s)
  \/ \E s \in SocketIds, chatId \in SChatInputs : MarkFind(s, chatId)
  \/ \E s \in SocketIds : MarkSave(s)

SpecP == Init /\ [][NextP]_vars

(* ============================ claims =================================== *)

\* C1: under concurrent claims (POST /:id/assign) by distinct experts on one
\* open conversation without expert, exactly one request is answered with
\* success: at most one expert ever gets the success response for a chat.
C1_ExactlyOneClaimSucceeds ==
  \A id \in ChatIds : Cardinality(assignOk[id]) <= 1

\* C2: a disconnect removes the user's presence entry only when the stored
\* connection id is the id of the disconnecting connection; after connect(u,A),
\* connect(u,B), disconnect(A) the entry of u is still B.
C2_DisconnectKeepsNewerEntry ==
  [][\A s \in SocketIds :
       (sockets[s].state = "open" /\ sockets'[s].state = "closed"
          /\ connectedUsers[sockets[s].user] # s)
       => connectedUsers'[sockets[s].user] = connectedUsers[sockets[s].user]]_vars

Count(events, P(_)) == Cardinality({i \in 1..Len(events) : P(events[i])})

\* C3: when a message is accepted for a conversation whose recipients are one
\* online and one offline participant, exactly one new_message goes to the
\* online participant, exactly one notification event is produced for the
\* offline participant, and no participant receives two events for the message.
C3_OneEventPerParticipant ==
  (outbox.by = "send_message" /\ \A i \in 1..Len(outbox.events) : outbox.events[i].ev # "error")
  => LET sender == sockets[outbox.from].user
         ps == schats[outbox.chatId].participants
         recipients == {ps[i] : i \in 1..Len(ps)} \ {sender}
         online == {p \in recipients : connectedUsers[p] # NoSocket}
         offline == recipients \ online
         NewMessageTo(p, e) == e.ev = "new_message" /\ e.to = connectedUsers[p]
         NotificationFor(p, e) == e.ev = "send_notification" /\ e.about = p
         ReceivedBy(v, e) == sockets[e.to].state = "open" /\ sockets[e.to].user = v
     IN (Cardinality(online) = 1 /\ Cardinality(offline) = 1)
        => /\ \A p \in online :
                Count(outbox.events, LAMBDA e : NewMessageTo(p, e)) = 1
           /\ \A p \in offline :
                Count(outbox.events, LAMBDA e : NotificationFor(p, e)) = 1
           /\ \A v \in SUsers :
                Count(outbox.events, LAMBDA e : ReceivedBy(v, e)) <= 1

\* C4: for every conversation the timestamps of the stored messages are
\* non-decreasing in stored order, also when two appends overlap between
\* taking the timestamp and the save.
C4_TimestampsNonDecreasing ==
  \A id \in ChatIds :
    chats[id] # NoChat =>
      \A i \in 1..(Len(chats[id].messages) - 1) :
        chats[id].messages[i].timestamp <= chats[id].messages[i + 1].timestamp

AllowedTransitions ==
  {<<"open", "in_progress">>, <<"open", "closed">>,
   <<"in_progress", "resolved">>, <<"in_progress", "closed">>}

\* C5: updateStatus (PUT /:id/status) changes the status only along
\* open->in_progress, open->closed, in_progress->resolved, in_progress->closed;
\* any other requested change leaves the status unchanged.
C5_OnlyAllowedTransitions ==
  [][\A u \in DUsers :
       (reqs[u].op = "status" /\ reqs'[u] = Idle)
       => \/ chats'[reqs[u].id].status = chats[reqs[u].id].status
          \/ <<chats[reqs[u].id].status, chats'[reqs[u].id].status>> \in AllowedTransitions]_vars

\* C6: a conversation is rated at most once: a rate call completing on a
\* conversation that already has a rating leaves the stored rating unchanged.
C6_RatedAtMostOnce ==
  [][\A u \in DUsers :
       (reqs[u].op = "rating" /\ reqs'[u] = Idle /\ chats[reqs[u].id].score # NoScore)
       => chats'[reqs[u].id].score = chats[reqs[u].id].score]_vars

\* C7: every successful rate call (POST /:id/rate answered 200) leaves the
\* conversation with status closed.
C7_RateClosesConversation ==
  [][\A u \in SUsers :
       (creqs[u].op = "rate" /\ creqs'[u] = Idle /\ cres' = 200)
       => consults'[creqs[u].id].status = "closed"]_vars

\* C8: a claim succeeds only on a conversation that is open and has no
\* assigned expert, and then sets the expert to the caller and the status to
\* in_progress.
C8_ClaimOnlyOpenUnassigned ==
  [][\A u \in DUsers :
       (reqs[u].op = "assign" /\ reqs'[u] = Idle)
       => /\ chats[reqs[u].id].status = "open"
          /\ chats[reqs[u].id].expert = NoExpert
          /\ chats'[reqs[u].id].expert = u
          /\ chats'[reqs[u].id].status = "in_progress"]_vars

\* C9: a connection attempt whose credential is missing, invalid or resolves
\* to no user is refused and adds no presence entry, joins no room, opens no
\* socket and changes no stored user state (nor issues an update of it).
C9_RefusedTouchesNothing ==
  [][(handshake' # NoHandshake /\ handshake'.token \notin SUsers)
       => /\ handshake'.answer \in {"Authentication error", "User not found"}
          /\ UNCHANGED <<sockets, connectedUsers, rooms, availability, pending>>]_vars

\* C9 witness: a signed token of a vanished user has just been refused while
\* another user is connected
C9_Witness ==
  /\ handshake.token = "gone"
  /\ handshake.answer = "User not found"
  /\ \E s \in SocketIds : sockets[s].state = "open"

\* C10: a connected socket of user i with role r is in i's personal room and
\* in r's role room, in the experts room iff r is expert, in the admins room
\* iff r is admin, and in no other user's personal room.
C10_RoomMembership ==
  \A s \in SocketIds :
    sockets[s].state = "open" =>
      LET u == sockets[s].user IN
      /\ UserRoom(u) \in rooms[s]
      /\ role(u) \in rooms[s]
      /\ ("experts" \in rooms[s]) <=> (role(u) = "expert")
      /\ ("admins" \in rooms[s]) <=> (role(u) = "admin")
      /\ \A v \in SUsers \ {u} : UserRoom(v) \notin rooms[s]

\* C10 witness: an expert and an admin are connected at once, each in its
\* own rooms
C10_Witness ==
  \E s, t \in SocketIds :
    /\ sockets[s].state = "open" /\ role(sockets[s].user) = "expert"
    /\ "experts" \in rooms[s] /\ "user_e1" \in rooms[s]
    /\ sockets[t].state = "open" /\ role(sockets[t].user) = "admin"
    /\ "admins" \in rooms[t] /\ "user_a1" \in rooms[t]

\* a participant entry of u exists and its isActive flag is set
ActiveParticipant(chat, u) == isParticipant(chat, u) /\ u \notin chat.inactive

\* C12: a send_message of a user who is not an active participant of the
\* conversation (absent from the participants, or present with isActive
\* false) is rejected: the handler never reaches the save of a message for it.
C12_InactiveSenderRejected ==
  [][\A s \in SocketIds :
       (sreqs[s] = Idle /\ sreqs'[s] # Idle /\ sreqs'[s].op = "send")
       => ActiveParticipant(schats[sreqs'[s].chatId], sockets[s].user)]_vars

\* C11: the presence registry maps each user id to at most one connection,
\* and right after a connection of user u is accepted on socket s the lookup
\* of u gives s, whatever entry u had before.
C11_ConnectOverwritesEntry ==
  [][handshake'.answer = "connected"
       => \E s \in SocketIds :
            /\ sockets[s].state = "new"
            /\ sockets'[s] = [user |-> handshake'.token, state |-> "open"]
            /\ connectedUsers'[handshake'.token] = s
            /\ \A v \in SUsers \ {handshake'.token} :
                 connectedUsers'[v] = connectedUsers[v]]_vars

\* C11 witness: a user with an open earlier connection has just connected
\* again and the entry names the new socket
C11_Witness ==
  /\ handshake.answer = "connected"
  /\ \E s, t \in SocketIds :
       /\ s # t
       /\ sockets[s] = [user |-> handshake.token, state |-> "open"]
       /\ sockets[t] = [user |-> handshake.token, state |-> "open"]
       /\ connectedUsers[handshake.token] = t
       /\ t > s

\* C13: when the message of an expert is appended (the save of POST
\* /:id/message is applied) to a conversation whose status is open, the status
\* is in_progress afterwards; the append of a farmer leaves the status as it was.
C13_ExpertAppendOpensProgress ==
  [][\A u \in DUsers :
       (reqs[u].op = "message" /\ reqs'[u] = Idle)
       => IF userType(u) = "expert"
          THEN chats[reqs[u].id].status = "open"
                 => chats'[reqs[u].id].status = "in_progress"
          ELSE chats'[reqs[u].id].status = chats[reqs[u].id].status]_vars

\* C14: marking read is idempotent: on every stored conversation and for
\* every user, marking twice in a row leaves on every message the read markers
\* that marking once leaves.
C14_MarkReadIdempotent ==
  \A c \in SChatIds, u \in SUsers :
    markAsRead(markAsRead(schats[c].messages, u), u) = markAsRead(schats[c].messages, u)

\* C14 witness: a conversation in which one message has been marked read by
\* a mark_read and another message is still unread
C14_Witness ==
  \E c \in SChatIds :
    \E i, j \in 1..Len(schats[c].messages) :
      /\ schats[c].messages[i].readBy # <<>>
      /\ ~schats[c].messages[j].isRead
      /\ \E u \in SUsers : markAsRead(schats[c].messages, u) # schats[c].messages

\* C15: after a mark_read of user u has been saved, every message of the
\* conversation carries a read marker of u, whoever sent it and whoever had
\* read it before.
C15_EveryMessageMarked ==
  [][\A s \in SocketIds :
       (sreqs[s].op = "mark" /\ sreqs'[s] = Idle /\ outbox'.by = "mark_read")
       => LET ms == schats'[sreqs[s].chatId].messages IN
          \A i \in 1..Len(ms) :
            \E k \in 1..Len(ms[i].readBy) : ms[i].readBy[k] = sockets[s].user]_vars

\* C16: a conversation produced by create (POST / of the consultation
\* routes) has the creating user as its only participant and no expert among
\* its participants.
C16_CreatedWithFarmerOnly ==
  [][\A id \in ConsultIds :
       (consults[id] = NoChat /\ consults'[id] # NoChat)
       => /\ Len(consults'[id].participants) = 1
          /\ \A i \in 1..Len(consults'[id].participants) :
               consults'[id].participants[i].role # "expert"]_vars

\* C17: for every reading and thresholds over temperature, humidity,
\* soilMoisture and pH, checkThresholds returns exactly one 'too low' alert for
\* each metric whose value is below its configured min, exactly one 'too high'
\* alert for each metric whose value is above its configured max, and nothing
\* else (so no alert when every value is within its limits).
C17_OneAlertPerBreach ==
  LET alerts == nres.alerts
      N(m, b) == Cardinality({i \in 1..Len(alerts) :
                    alerts[i].message.metric = m /\ alerts[i].message.bound = b})
  IN \A m \in Metrics :
       /\ N(m, "low") = IF Below(nres.reading[m], nres.thresholds[m].min) THEN 1 ELSE 0
       /\ N(m, "high") = IF Above(nres.reading[m], nres.thresholds[m].max) THEN 1 ELSE 0

\* C18: an alert for soil moisture below its min or temperature above its max
\* has severity high and an alert for any other breach has severity medium;
\* the reading {soilMoisture: 20} against a soilMoisture min of 30 gives
\* exactly one alert, of severity high.
C18_SeverityRule ==
  /\ \A i \in 1..Len(nres.alerts) :
       LET a == nres.alerts[i] IN
       a.severity =
         IF \/ (a.message.metric = "soilMoisture" /\ a.message.bound = "low")
            \/ (a.message.metric = "temperature" /\ a.message.bound = "high")
         THEN "high" ELSE "medium"
  /\ (/\ nres.reading = Reading(Undefined, Undefined, 20, Undefined)
      /\ nres.thresholds.soilMoisture.min = 30)
     => /\ Len(nres.alerts) = 1
        /\ nres.alerts[1].severity = "high"
        /\ nres.alerts[1].message =
             [metric |-> "soilMoisture", bound |-> "low", value |-> 20]

\* C18 witness: a reading below every limit has just been evaluated and gave
\* a medium alert (temperature low) and a high alert (soil moisture low)
C18_Witness ==
  /\ nres.reading = Reading(20, 20, 20, 20)
  /\ \E i, j \in 1..Len(nres.alerts) :
       /\ nres.alerts[i].severity = "medium"
       /\ nres.alerts[j].severity = "high"

C20_AdminOnlyFanOut ==
  outbox.by = "admin_notification" =>
    LET delivered == {outbox.events[i].to : i \in 1..Len(outbox.events)}
        selected ==
          CASE outbox.target = "all" -> {t \in SocketIds : sockets[t].state = "open"}
            [] outbox.target = "farmers" -> {t \in SocketIds : "farmer" \in rooms[t]}
            [] outbox.target = "experts" -> {t \in SocketIds : "experts" \in rooms[t]}
            [] outbox.target = "admins" -> {t \in SocketIds : "admins" \in rooms[t]}
            [] OTHER -> {}
    IN IF role(sockets[outbox.from].user) = "admin"
       THEN delivered = selected /\ Len(outbox.events) = Cardinality(selected)
       ELSE outbox.events = <<>>

\* C21: when the handling of an inbound event fails (here mark_read, on an
\* unknown conversation id or a failed save), the originating connection
\* receives an error event and no other connection receives anything.
C21_FailureAnsweredWithError ==
  outbox.by = "mark_read_error" =>
    /\ \E i \in 1..Len(outbox.events) :
         outbox.events[i].to = outbox.from /\ outbox.events[i].ev = "error"
    /\ \A i \in 1..Len(outbox.events) : outbox.events[i].to = outbox.from

\* C22: the alert log of a sensor only grows and an alert in it changes in
\* nothing but its acknowledgment: no step removes an alert or changes the
\* type, message or severity of a stored alert.
C22_AlertLogAppendOnly ==
  [][/\ Len(sensor'.alerts) >= Len(sensor.alerts)
     /\ \A i \in 1..Len(sensor.alerts) :
          i <= Len(sensor'.alerts) =>
            /\ sensor'.alerts[i].type = sensor.alerts[i].type
            /\ sensor'.alerts[i].message = sensor.alerts[i].message
            /\ sensor'.alerts[i].severity = sensor.alerts[i].severity]_vars

\* C23: the sensor-data event produced by ingesting a reading of a sensor is
\* received only by connections of the farmer who owns the sensor.
C23_OnlyOwnerReceives ==
  \A i \in 1..Len(sensorOut) :
    (sensorOut[i].ev = "sensor-data" /\ sensorOut[i].about # 0)
      => holder(sensorOut[i].to) = sensor.farmer

\* C24: once the status of a conversation is resolved or closed, no step
\* (message append, claim, status update, rating) changes its messages, its
\* expert, its status or its rating.
C24_ClosedConversationFrozen ==
  [][\A id \in ChatIds :
       (chats[id] # NoChat /\ chats[id].status \in {"resolved", "closed"})
       => /\ chats'[id].messages = chats[id].messages
          /\ chats'[id].expert = chats[id].expert
          /\ chats'[id].status = chats[id].status
          /\ chats'[id].score = chats[id].score]_vars

\* the live connections of a user
LiveSockets(u) == {s \in SocketIds : sockets[s].state = "open" /\ sockets[s].user = u}
\* socket ids are handed out in the order of connection
MostRecent(S) == CHOOSE s \in S : \A t \in S : t <= s

\* C25: the presence registry has an entry for user u exactly when u has at
\* least one live connection, and the entry is the most recent live
\* connection of u.
C25_EntryIffLiveConnection ==
  \A u \in SUsers :
    IF LiveSockets(u) = {}
    THEN connectedUsers[u] = NoSocket
    ELSE connectedUsers[u] = MostRecent(LiveSockets(u))

\* C26: once a claim of expert E on a conversation has returned success and
\* E is the assigned expert, the assigned expert stays E in every later state.
C26_ClaimedExpertStays ==
  [][\A id \in ChatIds : \A u \in Experts :
       (chats[id] # NoChat /\ u \in assignOk[id] /\ chats[id].expert = u)
       => chats'[id].expert = u]_vars

\* C27: the disconnect of a connection of an expert who has another live
\* connection issues no offline update (and so no offline event to admins).
C27_OfflineOnlyAtLastDisconnect ==
  [][\A s \in SocketIds :
       (sockets[s].state = "open" /\ sockets'[s].state = "closed"
          /\ role(sockets[s].user) = "expert"
          /\ LiveSockets(sockets[s].user) \ {s} # {})
       => pending' \subseteq pending]_vars

C29_NonParticipantMarkIgnored ==
  [][\A s \in SocketIds :
       (sreqs[s].op = "mark" /\ sreqs'[s] = Idle
          /\ ~isParticipant(schats[sreqs[s].chatId], sockets[s].user))
       => /\ schats' = schats
          /\ \A i \in 1..Len(outbox'.events) : outbox'.events[i].ev # "messages_read"]_vars

\* C30: whatever the interleaving of findOrCreateChat calls for two users
\* and a type, at most one active chat of that type holds both users and
\* every completed call returned that chat.
C30_OneChatPerPair ==
  \A k \in Callers :
    calls[k].op = "done" =>
      /\ Cardinality({c \in SChatIds :
            MatchesPair(c, calls[k].user1Id, calls[k].user2Id, calls[k].type)}) <= 1
      /\ calls[k].result \in SChatIds
      /\ MatchesPair(calls[k].result, calls[k].user1Id, calls[k].user2Id, calls[k].type)
====
